---- MODULE Spec2Model ----
(***************************************************************************)
(* Model of ApproxInference/utils.py: point-mass potentials, KL, draw and  *)
(* the three network transforms conditionalModel, mutilatedModel and       *)
(* unsharpenedModel.                                                       *)
(*                                                                         *)
(* A potential is a record [vars, vals]: the sequence of its variables and *)
(* its table in flat storage order, the first variable running fastest.    *)
(* A probability is an exact rational <<num, den>>.  A network is a record *)
(* [nodes, arcs, cpt].  Networks and evidence dicts live in heaps indexed  *)
(* by reference, so that copying and aliasing are distinguishable.         *)
(***************************************************************************)
EXTENDS Integers, Sequences, FiniteSets, TLC

\* ------------------------------------------------------------------ bounds

\* domain size of every variable of a network
DomSize == 2
\* largest number of evidence variables in an evidence mapping
MaxEvs == 3
\* table entries of the input networks are multiples of 1/Den
Den == 10
\* epsilon ranges over 1/Den .. MaxEps/Den
MaxEps == 3
\* number of CPT filling schemes for the input networks
NumFills == 3
\* largest domain size of the variable of a potential given to
\* deterministicPotential, draw and KL
MaxDom == 3
\* entries of those potentials are 0 or a power of two over 2^MaxLog
MaxLog == 3

\* ------------------------------------------------------------- basic data

Nodes == {"A", "B", "C"}
NodeSeq == <<"A", "B", "C">>
NoObj == [none |-> TRUE]

RECURSIVE Pow(_, _)
Pow(b, e) == IF e = 0 THEN 1 ELSE b * Pow(b, e - 1)

Range(s) == {s[k] : k \in 1..Len(s)}
PosOf(s, x) == CHOOSE k \in 1..Len(s) : s[k] = x
Without(s, x) == SelectSeq(s, LAMBDA y : y # x)

\* rationals <<num, den>>, den > 0, kept in lowest terms
RECURSIVE Gcd(_, _)
Gcd(a, b) == IF b = 0 THEN a ELSE Gcd(b, a % b)
Rat(n, d) == LET g == Gcd(IF n < 0 THEN -n ELSE n, d) IN <<n \div g, d \div g>>
RatLess(a, b) == a[1] * b[2] < b[1] * a[2]
RatAdd(a, b) == Rat(a[1] * b[2] + b[1] * a[2], a[2] * b[2])
RatSub(a, b) == Rat(a[1] * b[2] - b[1] * a[2], a[2] * b[2])
RatMul(a, b) == Rat(a[1] * b[1], a[2] * b[2])
RatDiv(a, b) == Rat(a[1] * b[2], a[2] * b[1])
Zero == Rat(0, 1)
One == Rat(1, 1)
RECURSIVE RatSum(_)
RatSum(s) == IF s = <<>> THEN Zero ELSE RatAdd(Head(s), RatSum(Tail(s)))

\* ------------------------------------------------------------- potentials

\* number of entries of a table over k variables
TableSize(k) == Pow(DomSize, k)
\* value of the k-th variable at flat offset i
Digit(i, k) == (i \div Pow(DomSize, k - 1)) % DomSize
\* flat offset of the assignment asg (a function on the variables of pot)
Offset(vars, asg) ==
  LET RECURSIVE Go(_)
      Go(k) == IF k > Len(vars) THEN 0
               ELSE asg[vars[k]] * Pow(DomSize, k - 1) + Go(k + 1)
  IN Go(1)
\* Potential.get(Instantiation)
Get(pot, asg) == pot.vals[1 + Offset(pot.vars, asg)]

\* Potential.extract({name: v}): the table at name = v, over the other
\* variables in their order
Extract(pot, name, v) ==
  LET k == PosOf(pot.vars, name)
      stride == Pow(DomSize, k - 1)
      nv == Without(pot.vars, name)
  IN [vars |-> nv,
      vals |-> [j \in 1..TableSize(Len(nv)) |->
                  pot.vals[1 + ((j - 1) % stride) + v * stride
                             + ((j - 1) \div stride) * stride * DomSize]]]

\* Potential.reorganize(names): the same function, variables in the order names
Reorganize(pot, names) ==
  [vars |-> names,
   vals |-> [j \in 1..TableSize(Len(names)) |->
               Get(pot, [x \in Range(names) |-> Digit(j - 1, PosOf(names, x))])]]

\* Potential.isNonZeroMap(): 1 where the entry is not 0, else 0
IsNonZeroMap(pot) ==
  [pot EXCEPT !.vals = [j \in DOMAIN @ |-> IF @[j] # Zero THEN One ELSE Zero]]

\* Potential.scale(e)
Scale(pot, e) == [pot EXCEPT !.vals = [j \in DOMAIN @ |-> RatMul(@[j], e)]]

\* p1 + p2 for two potentials over the same variables in the same order
AddPot(p1, p2) ==
  [p1 EXCEPT !.vals = [j \in DOMAIN @ |-> RatAdd(@[j], p2.vals[j])]]

\* the entries of the column of entry j: the first variable runs, the others
\* are fixed
ColumnOf(pot, j) ==
  [x \in 1..DomSize |-> pot.vals[((j - 1) \div DomSize) * DomSize + x]]

\* Potential.normalizeAsCPT(): each column divided by its sum
NormalizeAsCPT(pot) ==
  [pot EXCEPT !.vals = [j \in DOMAIN @ |-> RatDiv(@[j], RatSum(ColumnOf(pot, j)))]]

\* ---------------------------------------------------------------- networks

Parents(net, n) == {x \in net.nodes : <<x, n>> \in net.arcs}
Children(net, n) == {x \in net.nodes : <<n, x>> \in net.arcs}

\* BayesNet.eraseArc(tail, head): the arc goes and the tail variable leaves
\* the CPT of head (its table keeps the entries at tail = 0)
EraseArc(net, tail, head) ==
  [net EXCEPT !.arcs = @ \ {<<tail, head>>},
              !.cpt[head] = Extract(@, tail, 0)]

\* BayesNet.erase(n): the node, its arcs and its CPT go; n leaves the CPT of
\* each of its children
EraseNode(net, n) ==
  LET rest == net.nodes \ {n}
  IN [nodes |-> rest,
      arcs |-> {a \in net.arcs : a[1] # n /\ a[2] # n},
      cpt |-> [x \in rest |->
                 IF <<n, x>> \in net.arcs THEN Extract(net.cpt[x], n, 0)
                 ELSE net.cpt[x]]]

\* cpt(n)[:] = table: the flat table replaces the entries, variables stay
FillCpt(net, n, table) == [net EXCEPT !.cpt[n].vals = table]

\* ------------------------------------------------------------------ inputs

NodeIdx(n) == PosOf(NodeSeq, n) - 1

\* one CPT column of variable n: probability p/Den for value 0, the rest for
\* value 1
Column(p) == [x \in 0..(DomSize - 1) |->
                IF x = 0 THEN Rat(p, Den)
                ELSE IF x = 1 THEN Rat(Den - p, Den) ELSE Zero]

\* the probability of value 0 in column j of the CPT of n, filling scheme f
FillP(f, n, j) ==
  LET c == (f * (NodeIdx(n) + 1) + j) % 4
  IN CASE c = 0 -> 0 [] c = 1 -> 1 [] c = 2 -> Den \div 2 [] OTHER -> Den - 2

\* the parents of n in the order the arcs were added
ParentSeq(arcs, n, rev) ==
  LET up == SelectSeq(NodeSeq, LAMBDA x : <<x, n>> \in arcs)
  IN IF rev THEN [k \in 1..Len(up) |-> up[Len(up) + 1 - k]] ELSE up

MakeNet(arcs, rev, f) ==
  [nodes |-> Nodes,
   arcs |-> arcs,
   cpt |-> [n \in Nodes |->
      LET vs == <<n>> \o ParentSeq(arcs, n, rev)
      IN [vars |-> vs,
          vals |-> [i \in 1..TableSize(Len(vs)) |->
                      Column(FillP(f, n, (i - 1) \div DomSize))[(i - 1) % DomSize]]]]]

ForwardArcs == {a \in Nodes \X Nodes : NodeIdx(a[1]) < NodeIdx(a[2])}
InputNets == {MakeNet(arcs, rev, f) :
                arcs \in SUBSET ForwardArcs, rev \in BOOLEAN, f \in 1..NumFills}

\* evidence dicts, in insertion order: sequences of <<name, value>> with
\* distinct names
RECURSIVE EvsOfLen(_)
EvsOfLen(k) ==
  IF k = 0 THEN {<<>>}
  ELSE {Append(e, <<n, v>>) :
          e \in EvsOfLen(k - 1), n \in Nodes, v \in 0..(DomSize - 1)}
InputEvs ==
  {e \in UNION {EvsOfLen(k) : k \in 0..MaxEvs} :
     \A i, j \in 1..Len(e) : i # j => e[i][1] # e[j][1]}

Epsilons == {Rat(e, Den) : e \in 1..MaxEps}

\* dict helpers
Keys(d) == {d[k][1] : k \in 1..Len(d)}
Lookup(d, name) == d[CHOOSE k \in 1..Len(d) : d[k][1] = name][2]
Pop(d, name) == SelectSeq(d, LAMBDA kv : kv[1] # name)

\* ------------------------------------------------------------------- state

VARIABLES
  pc,      \* position of the running call
  op,      \* the function called: "cond", "mut", "unsharp", "det", "draw", "KL"
  nets,    \* heap of networks, by reference
  dicts,   \* heap of evidence dicts, by reference
  bn,      \* reference of the caller's network
  evs,     \* reference of the caller's evidence dict
  newbn,   \* reference held by the local newbn (0: unset)
  newevs,  \* reference held by the local newevs (0: unset)
  bn0,     \* the caller's network as it was before the call
  evs0,    \* the caller's evidence dict as it was before the call
  ei,      \* position of the loop over the evidence names
  chs,     \* children still to visit in the loop of line 115
  epsilon, \* argument of unsharpenedModel
  todo,    \* ids still to visit in the loop of line 159
  args,    \* the arguments of deterministicPotential, draw or KL
  rnd,     \* r of draw
  cur,     \* position of the Instantiation cursor of draw and KL
  val,     \* val of draw
  acc,     \* s of KL
  ret      \* the returned value

vars == <<pc, op, nets, dicts, bn, evs, newbn, newevs, bn0, evs0, ei, chs,
          epsilon, todo, args, rnd, cur, val, acc, ret>>

netVars == <<nets, dicts, bn, evs, newbn, newevs, bn0, evs0, ei, chs, epsilon, todo>>
potVars == <<args, rnd, cur, val, acc>>

NetRefs == 1..2
DictRefs == 1..2

Init ==
  /\ pc = "idle"
  /\ op = "none"
  /\ nets = [r \in NetRefs |-> NoObj]
  /\ dicts = [r \in DictRefs |-> NoObj]
  /\ bn = 1
  /\ evs = 1
  /\ newbn = 0
  /\ newevs = 0
  /\ bn0 = NoObj
  /\ evs0 = NoObj
  /\ ei = 0
  /\ chs = {}
  /\ epsilon = Zero
  /\ todo = {}
  /\ args = NoObj
  /\ rnd = Zero
  /\ cur = 0
  /\ val = 0
  /\ acc = Zero
  /\ ret = NoObj

\* ---------------------------------------------------------- conditionalModel

\* newbn = bn: the caller's object instead of a copy
AliasNetRef(b) == b
\* line 111, gum.BayesNet(bn): a fresh network object
CopyNetRef(b) == b + 1
\* line 112, dict(evs): a fresh dict object
CopyDictRef(e) == e + 1

\* the slice taken at value 0 instead of the evidence value
SlicedCptAtZero(net, name, v, ch) ==
  Reorganize(Extract(net.cpt[ch], name, 0), Without(net.cpt[ch].vars, name))

\* lines 117-119: the CPT of ch at name = v, variables in their former order
SlicedCpt(net, name, v, ch) ==
  Reorganize(Extract(net.cpt[ch], name, v), Without(net.cpt[ch].vars, name))

\* lines 117-124: slice, erase the arc, store the slice
ConditionChild(net, name, v, ch) ==
  LET q == SlicedCpt(net, name, v, ch)
  IN FillCpt(EraseArc(net, name, ch), ch, q.vals)

\* one child is not visited
ChildrenButOne(net, nid) ==
  LET cs == Children(net, nid)
  IN IF cs = {} THEN cs ELSE cs \ {CHOOSE c \in cs : TRUE}

\* line 115: the children visited for the evidence variable nid
ChildrenToVisit(net, nid) == Children(net, nid)

\* line 127: the evidence variable is removed
HasNoParent(net, nid) == Cardinality(Parents(net, nid)) = 0

\* lines 111-112, entered from conditionalModel or through line 141
CallCond(f) ==
  /\ op' = f
  /\ \E b \in InputNets, e \in InputEvs :
       /\ bn0' = b
       /\ evs0' = e
       /\ nets' = [[r \in NetRefs |-> IF r = bn THEN b ELSE NoObj]
                     EXCEPT ![CopyNetRef(bn)] = b]
       /\ dicts' = [[r \in DictRefs |-> IF r = evs THEN e ELSE NoObj]
                      EXCEPT ![CopyDictRef(evs)] = e]
  /\ newbn' = CopyNetRef(bn)
  /\ newevs' = CopyDictRef(evs)
  /\ ei' = 1
  /\ pc' = "for_name"
  /\ UNCHANGED <<bn, evs, chs, epsilon, todo, ret, potVars>>

\* line 103
CallConditionalModel ==
  /\ pc = "idle"
  /\ CallCond("cond")

\* line 141
CallMutilatedModel ==
  /\ pc = "idle"
  /\ CallCond("mut")

\* lines 113-115: next evidence name, its children
ForName ==
  /\ pc = "for_name"
  /\ ei <= Len(dicts[evs])
  /\ chs' = ChildrenToVisit(nets[newbn], dicts[evs][ei][1])
  /\ pc' = "for_ch"
  /\ UNCHANGED <<op, nets, dicts, bn, evs, newbn, newevs, bn0, evs0, ei, epsilon, todo, ret, potVars>>

\* lines 115-124: one child
ForChild ==
  /\ pc = "for_ch"
  /\ \E ch \in chs :
       LET name == dicts[evs][ei][1]
       IN /\ nets' = [nets EXCEPT ![newbn] =
                        ConditionChild(@, name, Lookup(dicts[evs], name), ch)]
          /\ chs' = chs \ {ch}
  /\ UNCHANGED <<pc, op, dicts, bn, evs, newbn, newevs, bn0, evs0, ei, epsilon, todo, ret, potVars>>

\* lines 126-129: the evidence variable goes when it has no parent
RemoveEvidence ==
  /\ pc = "for_ch"
  /\ chs = {}
  /\ LET name == dicts[evs][ei][1]
     IN IF HasNoParent(nets[newbn], name)
        THEN /\ nets' = [nets EXCEPT ![newbn] = EraseNode(@, name)]
             /\ dicts' = [dicts EXCEPT ![newevs] = Pop(@, name)]
        ELSE UNCHANGED <<nets, dicts>>
  /\ ei' = ei + 1
  /\ pc' = "for_name"
  /\ UNCHANGED <<op, bn, evs, newbn, newevs, bn0, evs0, chs, epsilon, todo, ret, potVars>>

\* line 131
CondReturn ==
  /\ pc = "for_name"
  /\ ei > Len(dicts[evs])
  /\ IF op = "cond"
     THEN /\ pc' = "done"
          /\ ret' = <<newbn, newevs>>
          /\ ei' = ei
     ELSE /\ pc' = "mut_for"
          /\ ret' = ret
          /\ ei' = 1
  /\ UNCHANGED <<op, nets, dicts, bn, evs, newbn, newevs, bn0, evs0, chs, epsilon, todo, potVars>>

\* conditionalModel as a function of the network and the evidence in its
\* iteration order: <<network, filtered evidence>>
RECURSIVE CondChildren(_, _, _, _)
CondChildren(net, name, v, cs) ==
  IF cs = {} THEN net
  ELSE LET ch == CHOOSE c \in cs : TRUE
       IN CondChildren(ConditionChild(net, name, v, ch), name, v, cs \ {ch})

CondName(st, name, v) ==
  LET net == CondChildren(st[1], name, v, ChildrenToVisit(st[1], name))
  IN IF HasNoParent(net, name)
     THEN <<EraseNode(net, name), Pop(st[2], name)>>
     ELSE <<net, st[2]>>

RECURSIVE CondLoop(_, _, _)
CondLoop(st, e, k) ==
  IF k > Len(e) THEN st ELSE CondLoop(CondName(st, e[k][1], e[k][2]), e, k + 1)

conditionalModel(b, e) == CondLoop(<<b, e>>, e, 1)

\* ------------------------------------------------------------ mutilatedModel

\* lines 143-144: one evidence variable left by conditionalModel
MutErase ==
  /\ pc = "mut_for"
  /\ ei <= Len(dicts[newevs])
  /\ nets' = [nets EXCEPT ![newbn] = EraseNode(@, dicts[newevs][ei][1])]
  /\ ei' = ei + 1
  /\ UNCHANGED <<pc, op, dicts, bn, evs, newbn, newevs, bn0, evs0, chs, epsilon, todo, ret, potVars>>

\* line 146
MutReturn ==
  /\ pc = "mut_for"
  /\ ei > Len(dicts[newevs])
  /\ pc' = "done"
  /\ ret' = newbn
  /\ UNCHANGED <<op, nets, dicts, bn, evs, newbn, newevs, bn0, evs0, ei, chs, epsilon, todo, potVars>>

\* ---------------------------------------------------------- unsharpenedModel

\* BayesNet.minNonZeroParam(): the smallest entry that is not 0, all CPTs
MinNonZeroParam(net) ==
  LET es == (UNION {Range(net.cpt[n].vals) : n \in net.nodes}) \ {Zero}
  IN CHOOSE m \in es : \A e \in es : ~RatLess(e, m)

\* <= in place of <
TooSharpOrEqual(net, eps) == ~RatLess(eps, MinNonZeroParam(net))

\* line 157
TooSharp(net, eps) == RatLess(MinNonZeroParam(net), eps)

\* epsilon added to every entry, the zero ones too
SmoothedEverywhere(pot, eps) ==
  NormalizeAsCPT([pot EXCEPT !.vals = [j \in DOMAIN @ |-> RatAdd(@[j], eps)]])

\* line 161: epsilon added where the entry is not 0, then normalized as a CPT
SmoothedCpt(pot, eps) ==
  NormalizeAsCPT(AddPot(Scale(IsNonZeroMap(pot), eps), pot))

\* lines 157-158 and 162-163
CallUnsharpenedModel ==
  /\ pc = "idle"
  /\ op' = "unsharp"
  /\ \E b \in InputNets, eps \in Epsilons :
       /\ epsilon' = eps
       /\ bn0' = b
       /\ IF TooSharp(b, eps)
          THEN /\ newbn' = CopyNetRef(bn)
               /\ nets' = [[r \in NetRefs |-> IF r = bn THEN b ELSE NoObj]
                             EXCEPT ![CopyNetRef(bn)] = b]
               /\ todo' = b.nodes
          ELSE /\ newbn' = bn
               /\ nets' = [r \in NetRefs |-> IF r = bn THEN b ELSE NoObj]
               /\ todo' = {}
  /\ pc' = "unsharp_for"
  /\ UNCHANGED <<dicts, bn, evs, newevs, evs0, ei, chs, ret, potVars>>

\* lines 159-161: one node
UnsharpNode ==
  /\ pc = "unsharp_for"
  /\ \E k \in todo :
       /\ nets' = [nets EXCEPT ![newbn] =
                     FillCpt(@, k, SmoothedCpt(@.cpt[k], epsilon).vals)]
       /\ todo' = todo \ {k}
  /\ UNCHANGED <<pc, op, dicts, bn, evs, newbn, newevs, bn0, evs0, ei, chs, epsilon, ret, potVars>>

\* line 165
UnsharpReturn ==
  /\ pc = "unsharp_for"
  /\ todo = {}
  /\ pc' = "done"
  /\ ret' = newbn
  /\ UNCHANGED <<op, nets, dicts, bn, evs, newbn, newevs, bn0, evs0, ei, chs, epsilon, todo, potVars>>

\* ------------------------------------------------- potentials of one variable
\* A potential over one variable is the sequence of its entries; entry x of
\* the domain 0..n-1 is at position x + 1.

Unit == Pow(2, MaxLog)
IndexError == [error |-> "IndexError"]
\* a returned gum.Potential over one variable
Factor(t) == [factor |-> t]

\* lines 15-17: l = [0] * n, l[val] = 1 as a Python list assignment (a
\* negative index counts from the end), then the potential filled with l
deterministicPotential(n, value) ==
  LET idx == IF value < 0 THEN value + n ELSE value
  IN IF idx < 0 \/ idx >= n THEN IndexError
     ELSE Factor([x \in 1..n |-> IF x = idx + 1 THEN One ELSE Zero])

\* normalized potentials over a domain of size n with entries 0 or a power
\* of two over Unit
PowEntries == {0} \cup {Pow(2, k) : k \in 0..MaxLog}
RECURSIVE IntSum(_)
IntSum(t) == IF t = <<>> THEN 0 ELSE Head(t) + IntSum(Tail(t))
Dists(n) == {[x \in 1..n |-> Rat(t[x], Unit)] :
               t \in {u \in [1..n -> PowEntries] : IntSum(u) = Unit}}
\* a potential whose entries sum to a little less than 1, as rounding yields
RoundedDown(d) ==
  LET k == CHOOSE x \in 1..Len(d) : \A y \in 1..Len(d) : ~RatLess(d[x], d[y])
  IN [d EXCEPT ![k] = RatSub(@, Rat(1, Unit))]
DrawInputs == UNION {Dists(n) \cup {RoundedDown(d) : d \in Dists(n)} : n \in 1..MaxDom}
\* random.random(): a number of [0, 1)
Randoms == {Rat(k, 2 * Unit) : k \in 0..(2 * Unit - 1)}

CallDeterministicPotential ==
  /\ pc = "idle"
  /\ op' = "det"
  /\ \E n \in 1..MaxDom, value \in (0 - MaxDom - 1)..(MaxDom + 1) :
       /\ args' = [v |-> n, val |-> value]
       /\ ret' = deterministicPotential(n, value)
  /\ pc' = "done"
  /\ UNCHANGED <<netVars, rnd, cur, val, acc>>

\* -------------------------------------------------------------------- draw

\* lines 58-60
CallDraw ==
  /\ pc = "idle"
  /\ op' = "draw"
  /\ \E d \in DrawInputs, r \in Randoms :
       /\ args' = [p |-> d, r |-> r]
       /\ rnd' = r
  /\ cur' = 0
  /\ val' = 0
  /\ pc' = "draw_loop"
  /\ UNCHANGED <<netVars, acc, ret>>

\* line 63
Selected(r) == r[1] <= 0

\* lines 61-66: one round of the loop
DrawStep ==
  /\ pc = "draw_loop"
  /\ cur < Len(args.p)
  /\ rnd' = RatSub(rnd, args.p[cur + 1])
  /\ IF Selected(rnd')
     THEN /\ val' = cur
          /\ cur' = cur
          /\ pc' = "draw_ret"
     ELSE /\ val' = val
          /\ cur' = cur + 1
          /\ pc' = pc
  /\ UNCHANGED <<op, netVars, args, acc, ret>>

\* line 61: the cursor is at its end
DrawEnd ==
  /\ pc = "draw_loop"
  /\ cur >= Len(args.p)
  /\ pc' = "draw_ret"
  /\ UNCHANGED <<op, netVars, potVars, ret>>

\* line 68
DrawReturn ==
  /\ pc = "draw_ret"
  /\ ret' = <<val, deterministicPotential(Len(args.p), val)>>
  /\ pc' = "done"
  /\ UNCHANGED <<op, netVars, potVars>>

\* ---------------------------------------------------------------------- KL

\* math.log2 of a power of two
RECURSIVE Log2(_)
Log2(x) ==
  IF x = One THEN 0
  ELSE IF x[2] = 1 THEN 1 + Log2(Rat(x[1], 2)) ELSE Log2(Rat(2 * x[1], x[2])) - 1

\* no penalty for p == 0 and q > 0
KLTermOneWay(px, qx) ==
  IF px[1] > 0
  THEN IF qx[1] > 0 THEN RatMul(px, Rat(Log2(RatDiv(px, qx)), 1)) ELSE One
  ELSE Zero

\* lines 36-43: what one domain value adds to s
KLTerm(px, qx) ==
  IF px[1] > 0
  THEN IF qx[1] > 0 THEN RatMul(px, Rat(Log2(RatDiv(px, qx)), 1)) ELSE One
  ELSE IF qx[1] > 0 THEN One ELSE Zero

\* lines 32-34
CallKL ==
  /\ pc = "idle"
  /\ op' = "KL"
  /\ \E n \in 1..MaxDom : \E dp \in Dists(n), dq \in Dists(n) :
       args' = [p |-> dp, q |-> dq]
  /\ cur' = 0
  /\ acc' = Zero
  /\ pc' = "kl_loop"
  /\ UNCHANGED <<netVars, rnd, val, ret>>

\* lines 35-46: one round of the loop
KLStep ==
  /\ pc = "kl_loop"
  /\ cur < Len(args.p)
  /\ acc' = RatAdd(acc, KLTerm(args.p[cur + 1], args.q[cur + 1]))
  /\ cur' = cur + 1
  /\ UNCHANGED <<pc, op, netVars, args, rnd, val, ret>>

\* line 49
KLReturn ==
  /\ pc = "kl_loop"
  /\ cur >= Len(args.p)
  /\ ret' = IF acc[1] <= 0 THEN Zero ELSE acc
  /\ pc' = "done"
  /\ UNCHANGED <<op, netVars, potVars>>

Next ==
  \/ CallConditionalModel
  \/ CallMutilatedModel
  \/ ForName
  \/ ForChild
  \/ RemoveEvidence
  \/ CondReturn
  \/ MutErase
  \/ MutReturn
  \/ CallUnsharpenedModel
  \/ UnsharpNode
  \/ UnsharpReturn
  \/ CallDeterministicPotential
  \/ CallDraw
  \/ DrawStep
  \/ DrawEnd
  \/ DrawReturn
  \/ CallKL
  \/ KLStep
  \/ KLReturn

Spec == Init /\ [][Next]_vars

\* ---------------------------------------------------------------- properties

Vals == 0..(DomSize - 1)
Done(f) == pc = "done" /\ op = f
\* every node's CPT is over the node and its parents, with a full table
WellFormed(net) ==
  \A n \in net.nodes :
    /\ Range(net.cpt[n].vars) = {n} \cup Parents(net, n)
    /\ Len(net.cpt[n].vals) = TableSize(Len(net.cpt[n].vars))
\* asg on the variables vs, completed by the evidence e elsewhere
WithEvidence(asg, vs, e) ==
  [x \in Range(vs) \cup Keys(e) |-> IF x \in Range(vs) THEN asg[x] ELSE Lookup(e, x)]
\* the dict d as a mapping, its insertion order forgotten
AsMapping(d) == Range(d)
\* the orders in which the dict e can be iterated
Orders(e) == {o \in InputEvs : Range(o) = Range(e)}

\* C1: mutilatedModel returns the network over the non-evidence nodes, with
\* the arcs between non-evidence nodes, each CPT being the original one
\* sliced at the evidence values of its evidence parents (the original one
\* when the node has no evidence parent), whatever the iteration order.
C1_MutilatedModel ==
  Done("mut") =>
    LET res == nets[ret]
        E == Keys(evs0)
    IN /\ res.nodes = bn0.nodes \ E
       /\ res.arcs = {a \in bn0.arcs : a[1] \notin E /\ a[2] \notin E}
       /\ \A n \in res.nodes :
            LET old == bn0.cpt[n]
                new == res.cpt[n]
            IN /\ new.vars = SelectSeq(old.vars, LAMBDA x : x \notin E)
               /\ Len(new.vals) = TableSize(Len(new.vars))
               /\ \A asg \in [Range(new.vars) -> Vals] :
                    Get(new, asg) = Get(old, WithEvidence(asg, new.vars, evs0))
               /\ (Parents(bn0, n) \cap E = {} => new = old)

\* a mutilation where a remaining node has two evidence parents, one the
\* parent of the other, the child evidence being iterated first
C1_Witness ==
  /\ Done("mut")
  /\ Len(evs0) >= 2
  /\ <<evs0[2][1], evs0[1][1]>> \in bn0.arcs
  /\ \E n \in nets[ret].nodes : Keys(evs0) \subseteq Parents(bn0, n)

\* C2: in the pair returned by conditionalModel an evidence variable is in
\* the network and in the filtered evidence exactly when it has a parent in
\* the returned network.
C2_KeptIffParent ==
  Done("cond") =>
    LET res == nets[ret[1]]
        kept == Keys(dicts[ret[2]])
    IN \A name \in Keys(evs0) :
         /\ (name \in res.nodes) = (name \in kept)
         /\ (name \in res.nodes) = (name \in res.nodes /\ Parents(res, name) # {})

\* C3: conditionalModel returns the same network and the same filtered
\* evidence for every iteration order of the evidence mapping.
C3_OrderIndependent ==
  Done("cond") =>
    \A o \in Orders(evs0) :
      LET other == conditionalModel(bn0, o)
      IN /\ other[1] = nets[ret[1]]
         /\ AsMapping(other[2]) = AsMapping(dicts[ret[2]])

\* C4: the caller's network and evidence mapping are never changed by
\* conditionalModel, mutilatedModel or unsharpenedModel.
C4_InputsUntouched ==
  pc # "idle" =>
    /\ nets[bn] = bn0
    /\ op \in {"cond", "mut"} => dicts[evs] = evs0

\* a call has returned a network and a filtered evidence that differ from
\* the inputs
C4_Witness ==
  /\ pc = "done"
  /\ op \in {"cond", "mut"}
  /\ nets[newbn] # bn0
  /\ dicts[newevs] # evs0

Smoothed(pot, n, asg, eps) ==
  LET Plus(e) == IF e = Zero THEN Zero ELSE RatAdd(e, eps)
  IN RatDiv(Plus(Get(pot, asg)),
            RatSum([x \in 1..DomSize |-> Plus(Get(pot, [asg EXCEPT ![n] = x - 1]))]))

\* C8: unsharpenedModel returns the input object, unchanged, exactly when
\* the smallest non-zero entry of the input is >= epsilon; otherwise it
\* returns another object in which every CPT is smoothed.
C8_AliasOrSmoothedCopy ==
  Done("unsharp") =>
    LET small == RatLess(MinNonZeroParam(bn0), epsilon)
    IN /\ (ret = bn) = ~small
       /\ ret = bn => nets[ret] = bn0
       /\ ret # bn =>
            \A n \in bn0.nodes :
              /\ nets[ret].cpt[n].vars = bn0.cpt[n].vars
              /\ \A asg \in [Range(bn0.cpt[n].vars) -> Vals] :
                   Get(nets[ret].cpt[n], asg) = Smoothed(bn0.cpt[n], n, asg, epsilon)

\* the smallest non-zero entry equals epsilon and the input is returned
C8_Witness ==
  /\ Done("unsharp")
  /\ MinNonZeroParam(bn0) = epsilon
  /\ ret = bn

\* C10: a node is erased only when it has no children; after every step of
\* conditionalModel and mutilatedModel every CPT is over its node and the
\* node's current parents; in the network conditionalModel returns no
\* evidence variable has a child.
C10_Step ==
  (op' \in {"cond", "mut"} /\ pc # "idle") =>
    LET before == nets[newbn]
        after == nets'[newbn']
    IN /\ \A n \in before.nodes \ after.nodes : Children(before, n) = {}
       /\ WellFormed(after)
       /\ (pc = "for_name" /\ pc' # "for_ch") =>
            \A name \in Keys(evs0) \cap after.nodes : Children(after, name) = {}
C10_ErasedChildlessCptsMatch == [][C10_Step]_vars

\* a mutilation has erased an evidence variable that had a parent outside
\* the evidence and a child
C10_Witness ==
  /\ Done("mut")
  /\ \E name \in Keys(evs0) :
       /\ Parents(bn0, name) \ Keys(evs0) # {}
       /\ Children(bn0, name) # {}

PointMass(n, k) == [x \in 1..n |-> IF x = k + 1 THEN One ELSE Zero]

\* C5: draw applied to the point mass at k returns k and the point mass at
\* k, for every domain size, every k and every r of [0, 1), r = 0 included.
C5_DrawPointMass ==
  Done("draw") =>
    \A k \in 0..(Len(args.p) - 1) :
      args.p = PointMass(Len(args.p), k)
        => ret = <<k, Factor(PointMass(Len(args.p), k))>>

\* C6: deterministicPotential(v, val) returns a factor exactly when
\* 0 <= val < v.domainSize(); any other val, negative or too large, fails.
C6_FactorOnlyInRange ==
  Done("det") => ((ret # IndexError) = (0 <= args.val /\ args.val < args.v))

\* what one round of the loop of KL adds to s, and what KL returns
KLRound(P(_, _)) ==
  (pc = "kl_loop" /\ cur < Len(args.p)) =>
    P(args.p[cur + 1], args.q[cur + 1])
KLResult(betweenPointMasses) ==
  (pc = "kl_loop" /\ pc' = "done") =>
    LET n == Len(args.p)
    IN /\ \A k, j \in 0..(n - 1) :
            (k # j /\ args.p = PointMass(n, k) /\ args.q = PointMass(n, j))
              => ret' = betweenPointMasses
       /\ args.p = args.q => ret' = Zero

\* C9 as stated: a value with p(x) = 0 adds nothing whatever q(x) is, a
\* value with p(x) > 0 and q(x) = 0 adds 1; KL between the point masses at
\* two different values is 1 and KL(p, p) is 0.
C9_Original_Step ==
  /\ KLRound(LAMBDA px, qx :
       /\ px = Zero => acc' = acc
       /\ (px # Zero /\ qx = Zero) => acc' = RatAdd(acc, One))
  /\ KLResult(One)
C9_Original == [][C9_Original_Step]_vars

\* C9 amended: a value with p(x) = 0 adds 1 when q(x) > 0 and nothing when
\* q(x) = 0, a value with p(x) > 0 and q(x) = 0 adds 1; KL between the point
\* masses at two different values is 2 and KL(p, p) is 0.
C9_Amended_Step ==
  /\ KLRound(LAMBDA px, qx :
       /\ (px = Zero /\ qx = Zero) => acc' = acc
       /\ (px = Zero /\ qx # Zero) => acc' = RatAdd(acc, One)
       /\ (px # Zero /\ qx = Zero) => acc' = RatAdd(acc, One))
  /\ KLResult(Rat(2, 1))
C9_PenaltyBothWays == [][C9_Amended_Step]_vars

\* KL of two point masses at different values of a domain with a third
\* value has returned
C9_Witness ==
  /\ Done("KL")
  /\ Len(args.p) >= 3
  /\ \E k, j \in 0..(Len(args.p) - 1) :
       k # j /\ args.p = PointMass(Len(args.p), k) /\ args.q = PointMass(Len(args.p), j)
  /\ ret = Rat(2, 1)

====
